---- MODULE Spec2Model ----
(***************************************************************************)
(* Model of tools/colorize.py: the batch driver colorize(), the manifest   *)
(* reader read_json(), the image loader load_image() and the per-layer     *)
(* blend  image = image*(1.0 - mask) + image*mask*col.                     *)
(*                                                                         *)
(* Images are one row of pixels (width = Len(px)); every band value is an  *)
(* exact rational <<numerator, denominator>> in lowest terms, so that the  *)
(* arithmetic of the blend is modelled without rounding.                   *)
(***************************************************************************)
EXTENDS Integers, Sequences, FiniteSets, TLC

\* ------------------------------------------------------------------ bounds
MaxJobs == 2
MaxJobLayers == 1
MaxLayers == 2

\* ------------------------------------------------------ exact rationals
RECURSIVE GCD(_, _)
GCD(a, b) == IF b = 0 THEN a ELSE GCD(b, a % b)

Abs(a) == IF a < 0 THEN -a ELSE a

RNorm(n, d) ==
    LET g == GCD(Abs(n), d)
    IN  IF n = 0 THEN <<0, 1>> ELSE <<n \div g, d \div g>>

RInt(n) == <<n, 1>>

RMul(x, y) ==
    LET g1 == GCD(Abs(x[1]), y[2])
        g2 == GCD(Abs(y[1]), x[2])
    IN  IF x[1] = 0 \/ y[1] = 0 THEN <<0, 1>>
        ELSE <<(x[1] \div g1) * (y[1] \div g2), (x[2] \div g2) * (y[2] \div g1)>>

RAdd(x, y) ==
    LET g == GCD(x[2], y[2])
        l == (x[2] \div g) * y[2]
    IN  RNorm(x[1] * (l \div x[2]) + y[1] * (l \div y[2]), l)

RSub(x, y) == RAdd(x, <<-y[1], y[2]>>)

\* x <= y, decided on the integer parts and then on the reciprocals of
\* the fractional parts, so that no cross product is formed
RECURSIVE RLeq(_, _)
RLeq(x, y) ==
    LET qx == x[1] \div x[2]
        qy == y[1] \div y[2]
        rx == x[1] % x[2]
        ry == y[1] % y[2]
    IN  IF qx # qy THEN qx < qy
        ELSE IF rx = 0 THEN TRUE
        ELSE IF ry = 0 THEN FALSE
        ELSE RLeq(<<y[2], ry>>, <<x[2], rx>>)

\* ------------------------------------------------------------- constants
FullByte == 255

NoImage == [bands |-> 0, icc |-> FALSE, px |-> <<>>]

\* PNG files in the manifest's directory, by stem.  A stem that is not in
\* the domain names no file.  interp/bands/icc are what pngload reports;
\* srgb holds the bytes an ICC transform to sRGB yields for the file.
Files ==
    [base   |-> [interp |-> "srgb", bands |-> 4, icc |-> FALSE,
                 px   |-> << <<100, 255, 0, 255>>, <<255, 100, 0, 100>> >>,
                 srgb |-> << <<100, 255, 0, 255>>, <<255, 100, 0, 100>> >>],
     grey   |-> [interp |-> "b-w", bands |-> 1, icc |-> FALSE,
                 px   |-> << <<100>>, <<255>> >>,
                 srgb |-> << <<100>>, <<255>> >>],
     tagged |-> [interp |-> "srgb", bands |-> 4, icc |-> TRUE,
                 px   |-> << <<255, 0, 100, 255>>, <<0, 255, 255, 100>> >>,
                 srgb |-> << <<100, 0, 255, 255>>, <<0, 255, 100, 100>> >>],
     mhalf  |-> [interp |-> "srgb", bands |-> 4, icc |-> FALSE,
                 px   |-> << <<128, 128, 128, 128>>, <<128, 128, 128, 128>> >>,
                 srgb |-> << <<128, 128, 128, 128>>, <<128, 128, 128, 128>> >>],
     mmix   |-> [interp |-> "srgb", bands |-> 4, icc |-> FALSE,
                 px   |-> << <<255, 255, 255, 255>>, <<0, 128, 255, 0>> >>,
                 srgb |-> << <<255, 255, 255, 255>>, <<0, 128, 255, 0>> >>],
     msmall |-> [interp |-> "srgb", bands |-> 4, icc |-> FALSE,
                 px   |-> << <<128, 255, 0, 255>> >>,
                 srgb |-> << <<128, 255, 0, 255>> >>]]

Colors == { <<255, 0, 51>>, <<51, 255, 0, 51>> }

\* ---------------------------------------------------------- image library
Max(a, b) == IF a >= b THEN a ELSE b

\* Vips.Image.pngload: the decoded file, band values as exact numbers
pngload(stem) ==
    LET f == Files[stem]
    IN  [bands |-> f.bands, icc |-> f.icc,
         px |-> [p \in 1..Len(f.px) |-> [b \in 1..f.bands |-> RInt(f.px[p][b])]]]

\* image.colourspace('srgb') of a greyscale image: the grey band is
\* replicated into red, green and blue, an alpha band is kept
colourspace(img) ==
    LET extra == img.bands - 1
    IN  [img EXCEPT
            !.bands = 3 + extra,
            !.px = [p \in 1..Len(img.px) |->
                       [b \in 1..(3 + extra) |->
                           IF b <= 3 THEN img.px[p][1] ELSE img.px[p][b - 2]]]]

\* image.hasalpha(): a second band on grey, a fourth band on colour
hasalpha(img) == img.bands \in {2, 4}

\* image.addalpha(): one more band, fully opaque
addalpha(img) ==
    [img EXCEPT
        !.bands = img.bands + 1,
        !.px = [p \in 1..Len(img.px) |-> Append(img.px[p], RInt(FullByte))]]

\* image.icc_transform('srgb'): the colour bands become the file's sRGB
\* values, alpha is kept
icc_transform(img, stem) ==
    LET t == Files[stem].srgb
    IN  [img EXCEPT
            !.px = [p \in 1..Len(img.px) |->
                       [b \in 1..img.bands |->
                           IF b <= 3 THEN RInt(t[p][b]) ELSE img.px[p][b]]]]

\* load_image: the set of results the loader can produce for a stem.
\* ok = FALSE is the ColorizingException of a failed pngload.  The
\* try-block around addalpha/icc_transform swallows a library error of
\* either step and returns the image as it was when the error was raised.
load_image(stem) ==
    IF stem \notin DOMAIN Files
    THEN {[ok |-> FALSE, img |-> NoImage]}
    ELSE LET i1 == pngload(stem)
             i2 == IF Files[stem].interp # "srgb" THEN colourspace(i1) ELSE i1
             i3 == IF ~hasalpha(i2) THEN addalpha(i2) ELSE i2
             i4 == IF i3.icc THEN icc_transform(i3, stem) ELSE i3
         IN  {[ok |-> TRUE, img |-> i4]}
             \cup (IF ~hasalpha(i2) THEN {[ok |-> TRUE, img |-> i2]} ELSE {})
             \cup (IF i3.icc THEN {[ok |-> TRUE, img |-> i3]} ELSE {})

\* A pixel of img at position p; positions past the image's width are the
\* zero pixels libvips adds to the smaller operand of a binary operation
Pixel(img, p) ==
    IF p <= Len(img.px) THEN img.px[p] ELSE [b \in 1..img.bands |-> RInt(0)]

\* image * image, band by band, on the wider of the two widths
ImgMul(a, b) ==
    [a EXCEPT
        !.px = [p \in 1..Max(Len(a.px), Len(b.px)) |->
                   [k \in 1..a.bands |-> RMul(Pixel(a, p)[k], Pixel(b, p)[k])]]]

\* image + image, band by band, on the wider of the two widths
ImgAdd(a, b) ==
    [a EXCEPT
        !.px = [p \in 1..Max(Len(a.px), Len(b.px)) |->
                   [k \in 1..a.bands |-> RAdd(Pixel(a, p)[k], Pixel(b, p)[k])]]]

\* image * [c1, ..., cn], one constant per band
MulVec(a, vec) ==
    [a EXCEPT
        !.px = [p \in 1..Len(a.px) |-> [k \in 1..a.bands |-> RMul(a.px[p][k], vec[k])]]]

DivByte(v) == RMul(v, <<1, FullByte>>)

\* mutant of OneMinus: 1.0 + mask
OneMinus_plus(v) == RAdd(RInt(1), v)

OneMinus(v) == RSub(RInt(1), v)

\* image / 255.0
ImgDivByte(a) ==
    [a EXCEPT !.px = [p \in 1..Len(a.px) |-> [k \in 1..a.bands |-> DivByte(a.px[p][k])]]]

\* 1.0 - image
ImgOneMinus(a) ==
    [a EXCEPT !.px = [p \in 1..Len(a.px) |-> [k \in 1..a.bands |-> OneMinus(a.px[p][k])]]]

\* mutant of NormCol: a 3-component colour gets alpha 0
NormCol_alpha0(col) ==
    LET c4 == IF Len(col) = 3 THEN col \o <<0>> ELSE col
    IN  [k \in 1..Len(c4) |-> DivByte(RInt(c4[k]))]

\* lines 99-101: a 3-component colour gets alpha 255; every component / 255.0
NormCol(col) ==
    LET c4 == IF Len(col) = 3 THEN col \o <<FullByte>> ELSE col
    IN  [k \in 1..Len(c4) |-> DivByte(RInt(c4[k]))]

\* line 103 raises a library error when the band counts of the operands
\* differ or the colour vector does not have one constant per band
BlendFails(image, maskimg, col) ==
    \/ image.bands # maskimg.bands
    \/ Len(NormCol(col)) # image.bands

\* mutant of Blend: the mask blends toward the colour itself,
\* image*(1.0 - mask) + 255*mask*col
Blend_replace(image, maskimg, col) ==
    LET mask == ImgDivByte(maskimg)
        keep == ImgMul(image, ImgOneMinus(mask))
        tint == MulVec(maskimg, NormCol(col))
    IN  ImgAdd(keep, tint)

\* lines 102-103: mask = load_image(..) / 255.0
\*                image = (image * (1.0 - mask)) + image * mask * col
Blend(image, maskimg, col) ==
    LET mask == ImgDivByte(maskimg)
        keep == ImgMul(image, ImgOneMinus(mask))
        tint == MulVec(ImgMul(image, mask), NormCol(col))
    IN  ImgAdd(keep, tint)

\* pngsave of the image: band values are cast to 8 bit (truncated, and
\* clipped to 0..255)
Trunc(v) ==
    LET q == v[1] \div v[2]
    IN  IF q < 0 THEN 0 ELSE IF q > FullByte THEN FullByte ELSE q

\* mutant of pngsave: the image is taken to hold values in [0, 1]
pngsave_unit(img) ==
    [p \in 1..Len(img.px) |-> [k \in 1..img.bands |-> Trunc(DivByte(img.px[p][k]))]]

pngsave(img) ==
    [p \in 1..Len(img.px) |-> [k \in 1..img.bands |-> Trunc(img.px[p][k])]]

\* ------------------------------------------------------------ the manifest
NoJob == [id |-> "", file |-> "", colors |-> <<>>]

\* A decoded JSON document: an object (one job) or an array of jobs
JObject(j) == [kind |-> "object", obj |-> j, arr |-> <<>>]

JArray(js) == [kind |-> "array", obj |-> NoJob, arr |-> js]

\* test.col as found on disk: absent, not JSON, or a JSON document
Absent == [kind |-> "absent", obj |-> NoJob, arr |-> <<>>]

Invalid == [kind |-> "invalid", obj |-> NoJob, arr |-> <<>>]

\* mutant of read_json: the document is returned as decoded
read_json_nowrap(d) == d

\* lines 47-50: anything that is not a list is wrapped into a list
read_json(d) == IF d.kind # "array" THEN JArray(<<d.obj>>) ELSE d

SeqsUpTo(S, n) == UNION {[1..k -> S] : k \in 0..n}

\* Manifests of a batch: up to MaxJobs jobs, some of which name a missing
\* base, a missing mask or a mask narrower than the base
BatchHeads == { <<"o1", "base">>, <<"o2", "base">>, <<"o1", "nofile">> }

BatchLayers == { <<"mhalf", <<255, 0, 51>> >>, <<"msmall", <<51, 255, 0, 51>> >>,
                 <<"nomask", <<255, 0, 51>> >> }

BatchJobs ==
    {[id |-> h[1], file |-> h[2], colors |-> cs] :
        h \in BatchHeads, cs \in SeqsUpTo(BatchLayers, MaxJobLayers)}

\* Manifests of one job with up to MaxLayers layers over every mask and colour
BlendLayers == {"mhalf", "mmix", "msmall"} \X Colors

BlendJobs ==
    {[id |-> "out", file |-> f, colors |-> cs] :
        f \in {"base", "grey", "tagged"}, cs \in SeqsUpTo(BlendLayers, MaxLayers)}

Manifests ==
    {Absent, Invalid}
    \cup {JArray(js) : js \in SeqsUpTo(BatchJobs, MaxJobs)}
    \cup {JObject(j) : j \in BatchJobs}
    \cup {JArray(<<j>>) : j \in BlendJobs}
    \cup {JObject(j) : j \in BlendJobs}

Ids == {"o1", "o2", "out"}

NoFile == <<>>

\* ------------------------------------------------------------------ state
VARIABLES
    doc,        \* content of <dir>/test.col
    outdir,     \* <dir>/autocolor: "missing", "dir" or "file"
    outdir0,    \* history: outdir when the run started
    written,    \* <dir>/autocolor/<id>.png, by id: saved bytes or NoFile
    pc,         \* position of colorize()
    error,      \* the exception that ended the run, or "none"
    entries,    \* colorize's entries
    ei,         \* index of the current entry of the for loop of line 91
    li,         \* index of the current pair of the for loop of line 98
    image,      \* colorize's image
    base,       \* history: image as loaded at line 96 for the current entry
    prev,       \* history: image before the latest execution of line 103
    masks,      \* history: the masks loaded at line 102 for the current entry
    log         \* history: the loads and saves attempted, in order

vars == <<doc, outdir, outdir0, written, pc, error, entries, ei, li, image,
          base, prev, masks, log>>

Init ==
    /\ doc \in Manifests
    /\ outdir \in {"missing", "dir", "file"}
    /\ outdir0 = outdir
    /\ written = [i \in Ids |-> NoFile]
    /\ pc = "read_json"
    /\ error = "none"
    /\ entries = JArray(<<>>)
    /\ ei = 0
    /\ li = 0
    /\ image = NoImage
    /\ base = NoImage
    /\ prev = NoImage
    /\ masks = <<>>
    /\ log = <<>>

\* Path.mkdir(exist_ok=True): an existing directory is accepted, anything
\* else of that name is an error
MkdirFails(d) == d = "file"

\* mutant of mkdir: nothing is created
mkdir_noop(d) == d

mkdir(d) == "dir"

\* mutant of OutName: the output is named after the base image
OutName_file(job) == job.file

\* lines 92, 105: the output is named after the entry's id
OutName(job) == job.id

\* mutant of Fail: the exception is swallowed and the run goes on
Fail_swallow(e) == UNCHANGED <<pc, error>>

\* an exception leaves colorize() and main(): the run is over
Fail(e) == pc' = "failed" /\ error' = e

LoadEvent(stem, ok) == [op |-> "load", job |-> ei, name |-> stem, ok |-> ok]

SaveEvent(id) == [op |-> "save", job |-> ei, name |-> id, ok |-> TRUE]

\* line 87: entries = read_json(json_path)
ReadJson ==
    /\ pc = "read_json"
    /\ IF doc.kind = "absent"
       THEN Fail("FileNotFoundError") /\ UNCHANGED entries
       ELSE IF doc.kind = "invalid"
       THEN Fail("JSONDecodeError") /\ UNCHANGED entries
       ELSE /\ entries' = read_json(doc)
            /\ pc' = "mkdir"
            /\ UNCHANGED error
    /\ UNCHANGED <<doc, outdir, outdir0, written, ei, li, image, base, prev,
                   masks, log>>

\* line 89: output_dir.mkdir(exist_ok=True)
Mkdir ==
    /\ pc = "mkdir"
    /\ IF MkdirFails(outdir)
       THEN Fail("FileExistsError") /\ UNCHANGED <<outdir, ei>>
       ELSE /\ outdir' = mkdir(outdir)
            /\ ei' = 1
            /\ pc' = "entry"
            /\ UNCHANGED error
    /\ UNCHANGED <<doc, outdir0, written, entries, li, image, base, prev,
                   masks, log>>

\* lines 91-96: the next entry, and the load of its base image
LoadBase ==
    /\ pc = "entry"
    /\ ei <= Len(entries.arr)
    /\ LET source == entries.arr[ei].file
       IN  \E r \in load_image(source) :
             /\ log' = Append(log, LoadEvent(source, r.ok))
             /\ IF r.ok
                THEN /\ image' = r.img
                     /\ base' = r.img
                     /\ li' = 1
                     /\ pc' = "layer"
                     /\ UNCHANGED error
                ELSE /\ Fail("ColorizingException")
                     /\ UNCHANGED <<image, base, li>>
    /\ prev' = NoImage
    /\ masks' = <<>>
    /\ UNCHANGED <<doc, outdir, outdir0, written, entries, ei>>

\* lines 98-103: one (mask, col) pair
ApplyLayer ==
    /\ pc = "layer"
    /\ li <= Len(entries.arr[ei].colors)
    /\ LET mask == entries.arr[ei].colors[li][1]
           col  == entries.arr[ei].colors[li][2]
       IN  \E r \in load_image(mask) :
             /\ log' = Append(log, LoadEvent(mask, r.ok))
             /\ masks' = IF r.ok THEN Append(masks, r.img) ELSE masks
             /\ IF ~r.ok
                THEN /\ Fail("ColorizingException")
                     /\ UNCHANGED <<image, prev, li>>
                ELSE IF BlendFails(image, r.img, col)
                THEN /\ Fail("VipsError")
                     /\ UNCHANGED <<image, prev, li>>
                ELSE /\ image' = Blend(image, r.img, col)
                     /\ prev' = image
                     /\ li' = li + 1
                     /\ UNCHANGED <<pc, error>>
    /\ UNCHANGED <<doc, outdir, outdir0, written, entries, ei, base>>

\* line 105: image.pngsave(output_dir/<id>.png)
Save ==
    /\ pc = "layer"
    /\ li > Len(entries.arr[ei].colors)
    /\ LET out_id == OutName(entries.arr[ei])
       IN  /\ written' = [written EXCEPT ![out_id] = pngsave(image)]
           /\ log' = Append(log, SaveEvent(out_id))
    /\ ei' = ei + 1
    /\ pc' = "entry"
    /\ UNCHANGED <<doc, outdir, outdir0, error, entries, li, image, base, prev,
                   masks>>

\* the for loop of line 91 is exhausted: colorize returns
Finish ==
    /\ pc = "entry"
    /\ ei > Len(entries.arr)
    /\ pc' = "done"
    /\ UNCHANGED <<doc, outdir, outdir0, written, error, entries, ei, li, image,
                   base, prev, masks, log>>

Next == ReadJson \/ Mkdir \/ LoadBase \/ ApplyLayer \/ Save \/ Finish

Spec == Init /\ [][Next]_vars

\* ------------------------------------------------------ derived notions
\* the entry whose base, masks and layers the history variables describe
CurJob == IF pc = "entry" \/ pc = "done" THEN ei - 1 ELSE ei

CurColors == entries.arr[CurJob].colors

\* at least one layer of the current entry has been blended into image
LayerApplied ==
    /\ pc \in {"layer", "entry", "done"}
    /\ li > 1
    /\ prev # NoImage

\* every layer of the current entry has been blended into image
AllApplied ==
    /\ pc = "layer"
    /\ li > Len(CurColors)

\* the byte of colour col that acts on band k (lines 99-100)
ColByte(col, k) == IF Len(col) = 3 /\ k = 4 THEN FullByte ELSE col[k]

Min(a, b) == IF a <= b THEN a ELSE b

Reverse(sq) == [i \in 1..Len(sq) |-> sq[Len(sq) + 1 - i]]

\* the layers of the current entry as (loaded mask, colour) pairs
LoadedLayers == [i \in 1..Len(masks) |-> <<masks[i], CurColors[i][2]>>]

\* composite(I, layers): line 103 applied for each pair in turn
RECURSIVE Compose(_, _)
Compose(img, layers) ==
    IF layers = <<>> THEN img
    ELSE Compose(Blend(img, layers[1][1], layers[1][2]), Tail(layers))

C10_NeverBrightens ==
    (image # NoImage /\ base # NoImage) =>
        /\ image.bands = base.bands
        /\ Len(image.px) >= Len(base.px)
        /\ \A p \in 1..Len(base.px) : \A k \in 1..base.bands :
              /\ RLeq(RInt(0), image.px[p][k])
              /\ RLeq(image.px[p][k], base.px[p][k])
              /\ base.px[p][k] = RInt(0) => image.px[p][k] = RInt(0)

\* two layers have been applied, one band was darkened and a band that is
\* 0 in the base met a mask and a colour that are not 0
C10_Witness ==
    /\ AllApplied
    /\ li = 3
    /\ \E p \in 1..Len(base.px) : \E k \in 1..base.bands :
          /\ image.px[p][k] # base.px[p][k]
          /\ image.px[p][k] # RInt(0)
    /\ \E p \in 1..Len(base.px) : \E k \in 1..base.bands :
          /\ base.px[p][k] = RInt(0)
          /\ p <= Len(masks[1].px)
          /\ masks[1].px[p][k] # RInt(0)
          /\ ColByte(CurColors[1][2], k) # 0

\* C8: a job without layers writes the loaded base image, pixel for pixel
C8_EmptyLayersIdentity ==
    (pc = "entry" /\ ei > 1 /\ CurColors = <<>>) =>
        LET out == written[entries.arr[CurJob].id]
        IN  /\ Len(out) = Len(base.px)
            /\ \A p \in 1..Len(base.px) :
                  /\ Len(out[p]) = base.bands
                  /\ \A k \in 1..base.bands : RInt(out[p][k]) = base.px[p][k]

\* a job without layers has been saved, from a base with a band above 1
C8_Witness ==
    /\ pc = "entry"
    /\ ei > 1
    /\ CurColors = <<>>
    /\ written[entries.arr[CurJob].id] # NoFile
    /\ \E p \in 1..Len(base.px) : \E k \in 1..base.bands : base.px[p][k][1] > 1

\* C1 (as amended): the order of the layers does not matter: once all
\* layers of a job are applied, the image is what compositing the same
\* layers in reverse order onto the base gives.
C1_OrderIrrelevant ==
    AllApplied =>
        /\ image = Compose(base, LoadedLayers)
        /\ image = Compose(base, Reverse(LoadedLayers))

\* two layers with the same mask of weight 128/255 and two different
\* colours have been applied to a base
C1_Witness ==
    /\ AllApplied
    /\ li = 3
    /\ CurColors[1][1] = "mhalf"
    /\ CurColors[2][1] = "mhalf"
    /\ CurColors[1][2] # CurColors[2][2]
    /\ image # base

\* C1 as stated: some base, a mask of uniform weight 128/255 and two
\* different colours give different results in the two orders.
C1_OrderMatters ==
    \E f \in DOMAIN Files : \E r \in load_image(f) : \E c1 \in Colors : \E c2 \in Colors :
        \E mr \in load_image("mhalf") :
            /\ c1 # c2
            /\ ~BlendFails(r.img, mr.img, c1)
            /\ Compose(r.img, << <<mr.img, c1>>, <<mr.img, c2>> >>)
                   # Compose(r.img, << <<mr.img, c2>>, <<mr.img, c1>> >>)

\* ----------------------------------------------------- claims on the run
Saves == {i \in 1..Len(log) : log[i].op = "save"}

IsPrefix(a, b) == Len(a) <= Len(b) /\ \A i \in 1..Len(a) : a[i] = b[i]

Event(e) == <<e.op, e.job, e.name>>

\* the loads and the save of job k, in the order of lines 96, 102, 105
JobEvents(job, k) ==
    << <<"load", k, job.file>> >>
    \o [i \in 1..Len(job.colors) |-> <<"load", k, job.colors[i][1]>>]
    \o << <<"save", k, job.id>> >>

RECURSIVE RunEvents(_, _)
RunEvents(jobs, k) ==
    IF k > Len(jobs) THEN <<>> ELSE JobEvents(jobs[k], k) \o RunEvents(jobs, k + 1)

\* the latest layer was blended from a mask whose width differs from the
\* image's
MismatchApplied ==
    /\ pc \in {"layer", "entry", "done", "failed"}
    /\ prev # NoImage
    /\ masks # <<>>
    /\ Len(masks[Len(masks)].px) # Len(prev.px)

\* C2 as stated: a mask whose dimensions differ from the base's ends the
\* run with a dimension-mismatch error, and no output file has been
\* written, wherever the job is in the manifest.
C2_MismatchAborts ==
    MismatchApplied =>
        /\ pc = "failed"
        /\ error = "DimensionMismatchError"
        /\ \A i \in Ids : written[i] = NoFile

\* C4: a failed load is the last thing the run does: the run has ended
\* with the loader's error, the job of the failed load has no output and
\* nothing was loaded or saved after it.
C4_LoadFailureAborts ==
    \A i \in 1..Len(log) :
        ~log[i].ok =>
            /\ i = Len(log)
            /\ pc = "failed"
            /\ error = "ColorizingException"
            /\ \A j \in Saves : log[j].job < log[i].job
            /\ \A j \in 1..Len(log) : log[j].job <= log[i].job

\* the mask of the first job failed to load, after its base was loaded
\* and while a second job was waiting
C4_Witness ==
    /\ pc = "failed"
    /\ Len(log) = 2
    /\ log[1].ok
    /\ ~log[2].ok
    /\ log[2].job = 1
    /\ Len(entries.arr) = 2
    /\ entries.arr[2].file = "base"

\* C5 as stated: whenever parsing the manifest has been attempted, the
\* output directory exists.
C5_MkdirFirst == pc # "read_json" => outdir = "dir"

\* C5 (as amended): the manifest is parsed first; the output directory is
\* untouched while and when parsing fails, and it exists before the
\* first image is loaded.
C5_MkdirAfterParse ==
    /\ (pc \in {"read_json", "mkdir"} \/ error \in {"FileNotFoundError", "JSONDecodeError"})
           => outdir = outdir0
    /\ (pc \in {"entry", "layer", "done"} \/ log # <<>>) => outdir = "dir"

\* an image has been loaded in a run that started without the directory
C5_Witness ==
    /\ outdir0 = "missing"
    /\ log # <<>>
    /\ outdir = "dir"

\* C6 as stated: the image about to be blended, and every mask loaded
\* for blending, has an alpha band.
C6_AlphaAlways ==
    /\ (pc = "layer" /\ li <= Len(CurColors)) => hasalpha(image)
    /\ pc \in {"layer", "failed"} => \A i \in 1..Len(masks) : hasalpha(masks[i])

\* C7: once read, a manifest that is a single object has become the
\* entries that the one-element array of that object becomes.
C7_ObjectAsArray ==
    (doc.kind = "object" /\ pc \notin {"read_json"}) =>
        /\ entries = read_json(JArray(<<doc.obj>>))
        /\ entries.kind = "array"
        /\ entries.arr = <<doc.obj>>

\* a manifest that is a single object has run to its end and its job was
\* saved
C7_Witness ==
    /\ doc.kind = "object"
    /\ pc = "done"
    /\ written[doc.obj.id] # NoFile
    /\ Len(doc.obj.colors) > 0

\* C9: the loads and saves happen in manifest order, job by job: base,
\* then the masks in listed order, then one save under the job's id;
\* a run that ends without error has saved once per manifest entry.
C9_ManifestOrder ==
    /\ IsPrefix([i \in 1..Len(log) |-> Event(log[i])], RunEvents(entries.arr, 1))
    /\ \A i \in Saves : written[log[i].name] # NoFile
    /\ pc = "done" =>
          /\ Len(log) = Len(RunEvents(entries.arr, 1))
          /\ Cardinality(Saves) = Len(entries.arr)
    /\ (pc \in {"layer", "entry"}) =>
          Cardinality(Saves) = CurJob - (IF pc = "layer" THEN 1 ELSE 0)

\* a run of two jobs, the second with a layer, has ended without error
C9_Witness ==
    /\ pc = "done"
    /\ Len(entries.arr) = 2
    /\ Len(entries.arr[2].colors) > 0
    /\ Cardinality(Saves) = 2
    /\ entries.arr[1].id # entries.arr[2].id

====
